---- MODULE Spec2Model ----
(***************************************************************************)
(* A model of fred_exporter: the collector built by NewFredCollector, the  *)
(* Describe call of its registration, the export pass                      *)
(* fredCollector.Collect run by overlapping scrapes, the freshness policy  *)
(* collectorSeries.shouldUpdate, the decoder Observation.UnmarshalJSON,    *)
(* and the rate limited transport RateLimitedRoundTripper.                 *)
(*                                                                         *)
(* Specifications.  Spec is the whole program; SpecLive is the program     *)
(* under fair scheduling, with a bucket that goes on refilling; SpecRT is  *)
(* the round tripper under requests with cancellable contexts; SpecFresh   *)
(* and SpecDecode apply shouldUpdate and Observation.UnmarshalJSON to      *)
(* drawn inputs.                                                           *)
(*                                                                         *)
(* Time.  An instant is a record [day, sec]: day counts the days since     *)
(* 0001-01-01 (the zero time.Time is day 0, second 0) and sec the seconds  *)
(* of that day.  Sub-second precision is not modelled.                     *)
(*                                                                         *)
(* Decoding.  getSeries and getMeta hand back the decoded response; the    *)
(* model draws that record (err, Error, Observations / Series) from the    *)
(* sets below and does not decode a response's wire payload.  ErrorCode    *)
(* and Error both carry the tag error_code (lines 146-147, 311-312); the   *)
(* model takes Error as the decoder hands it over, empty or not.  The      *)
(* decoding of one observation object is modelled on its own, with         *)
(* time.Parse and strconv.ParseFloat as the Go library documents them.     *)
(***************************************************************************)
EXTENDS Integers, Sequences, FiniteSets, TLC

(* ------------------------------ bounds -------------------------------- *)

\* The last second of the model's clock.
MaxClock == 1

\* Requests the clients of the stand-alone round tripper issue in all.
MaxCalls == 5

\* Under the fair specification a scrape is accepted while fewer than this
\* many requests have been forwarded.
MaxForwards == 3

(* ------------------------- program constants -------------------------- *)

\* rate.Limit(1): one token per second.
Rate == 1

\* Burst size of the limiter.
Burst == 3

SecondsPerDay == 86400

(* ------------------------------- sets --------------------------------- *)

\* Series identifiers, as sequences of characters.
S1 == << "A", ":", "1" >>
S2 == << "b", "-", "2" >>
SeriesIds == { S1, S2 }

\* Export passes (scrapes) that may overlap.
Passes == { "p1", "p2" }

\* Goroutines that call the HTTP client: main (construction) and the passes.
Procs == Passes \cup { "main" }

\* Values an observation may carry.
Values == { 1, 2 }

\* frequency_short values the metadata endpoint may return.
MetaFreqs == { "D" }

\* Every frequency code shouldUpdate names, and three it does not.
FreqCodes ==
  { "d", "D", "Daily", "w", "W", "Weekly", "bw", "BW", "Biweekly",
    "m", "M", "Monthly", "q", "Q", "Quarterly", "sa", "SA", "Semiannual",
    "a", "A", "Annual", "", "daily", "NA" }

\* The series lists the process may be started with (the -series flags):
\* none, one, two different ones, the same one twice.
ConfigLists == { << >>, << S1 >>, << S1, S2 >>, << S2, S2 >> }

(* ------------------------------- time --------------------------------- *)

ZeroTime == [day |-> 0, sec |-> 0]

\* A float64: a number, held in tenths, or NaN.  The zero float64 is 0.
Num(tenths) == [kind |-> "num", tenths |-> tenths]
NaN == [kind |-> "nan", tenths |-> 0]

\* The zero Observation.
ZeroObservation ==
  [RealtimeStart |-> ZeroTime, RealtimeEnd |-> ZeroTime, Date |-> ZeroTime,
   Value |-> Num(0)]

\* time.Time.Add of a whole number of days.
AddDays(t, n) == [day |-> t.day + n, sec |-> t.sec]

\* A comparison that also holds of equal instants.
NotBefore(a, b) == a.day > b.day \/ (a.day = b.day /\ a.sec >= b.sec)

\* time.Time.After.
After(a, b) == a.day > b.day \/ (a.day = b.day /\ a.sec > b.sec)

\* The civil date (year, month) of a day number, proleptic Gregorian.
CivilFromDays(day) ==
  LET z == day + 306
      era == z \div 146097
      doe == z - era * 146097
      yoe == (doe - doe \div 1460 + doe \div 36524 - doe \div 146096) \div 365
      doy == doe - (365 * yoe + yoe \div 4 - yoe \div 100)
      mp == (5 * doy + 2) \div 153
      m == IF mp < 10 THEN mp + 3 ELSE mp - 9
      y == yoe + era * 400 + (IF m <= 2 THEN 1 ELSE 0)
  IN  [year |-> y, month |-> m]

\* time.Time.Month and time.Time.Year.
Month(t) == CivilFromDays(t.day).month
Year(t) == CivilFromDays(t.day).year

\* The day number of a civil date (time.Date), used to build inputs.
DaysFromCivil(y, m, d) ==
  LET yy == IF m <= 2 THEN y - 1 ELSE y
      era == yy \div 400
      yoe == yy - era * 400
      doy == (153 * (IF m > 2 THEN m - 3 ELSE m + 9) + 2) \div 5 + d - 1
      doe == yoe * 365 + yoe \div 4 - yoe \div 100 + doy
  IN  era * 146097 + doe - 306

\* The Gregorian rule: divisible by 4, and not by 100 unless by 400.
GregorianLeap(year) == year % 4 = 0 /\ (year % 100 # 0 \/ year % 400 = 0)

\* t minus n days and s seconds (0 <= s < SecondsPerDay).
Before(t, n, s) ==
  IF t.sec >= s
    THEN [day |-> t.day - n, sec |-> t.sec - s]
    ELSE [day |-> t.day - n - 1, sec |-> t.sec - s + SecondsPerDay]

(* -------------------------- freshness policy -------------------------- *)

\* The Julian rule: every fourth year, century years included.
isLeapYearJulian(year) == year % 4 = 0

isLeapYear(year) ==
  IF year % 4 = 0
    THEN IF year % 100 = 0
           THEN IF year % 400 = 0 THEN TRUE ELSE FALSE
           ELSE TRUE
    ELSE FALSE

\* collectorSeries.shouldUpdate, with time.Now() passed in as now.
shouldUpdate(frequency, lastUpdate, now) ==
  CASE frequency \in { "d", "D", "Daily" } ->
         After(now, AddDays(lastUpdate, 1))
    [] frequency \in { "w", "W", "Weekly" } ->
         After(now, AddDays(lastUpdate, 7))
    [] frequency \in { "bw", "BW", "Biweekly" } ->
         After(now, AddDays(lastUpdate, 14))
    [] frequency \in { "m", "M", "Monthly" } ->
         CASE Month(now) \in { 1, 3, 5, 7, 8, 10, 12 } ->
                After(now, AddDays(lastUpdate, 31))
           [] Month(now) \in { 4, 6, 9, 11 } ->
                After(now, AddDays(lastUpdate, 30))
           [] Month(now) = 2 ->
                IF isLeapYear(Year(now))
                  THEN After(now, AddDays(lastUpdate, 28))
                  ELSE After(now, AddDays(lastUpdate, 29))
           [] OTHER -> TRUE
    [] frequency \in { "q", "Q", "Quarterly" } ->
         After(now, AddDays(lastUpdate, 91))
    [] frequency \in { "sa", "SA", "Semiannual" } ->
         After(now, AddDays(lastUpdate, 182))
    [] frequency \in { "a", "A", "Annual" } ->
         After(now, AddDays(lastUpdate, 365))
    [] OTHER -> TRUE

(* ------------------------------ strings ------------------------------- *)

LowerCh(ch) ==
  CASE ch = "A" -> "a"
    [] ch = "B" -> "b"
    [] ch = "T" -> "t"
    [] OTHER -> ch

\* strings.ToLower.
ToLower(s) == [i \in DOMAIN s |-> LowerCh(s[i])]

\* strings.Replace(s, old, new, -1) for one-character old and new.
Replace(s, old, new) == [i \in DOMAIN s |-> IF s[i] = old THEN new ELSE s[i]]

metricName(s) == ToLower(Replace(Replace(s, ":", "_"), "-", "_"))

(* ------------------------------ decoding ------------------------------ *)

\* The value of a decimal digit, -1 for any other character.
DigitVal(ch) ==
  CASE ch = "0" -> 0 [] ch = "1" -> 1 [] ch = "2" -> 2 [] ch = "3" -> 3
    [] ch = "4" -> 4 [] ch = "5" -> 5 [] ch = "6" -> 6 [] ch = "7" -> 7
    [] ch = "8" -> 8 [] ch = "9" -> 9 [] OTHER -> -1

IsDigit(ch) == DigitVal(ch) >= 0

AllDigits(s) == \A i \in DOMAIN s : IsDigit(s[i])

\* The number a sequence of digits denotes.
RECURSIVE IntOf(_)
IntOf(s) ==
  IF s = << >> THEN 0
  ELSE 10 * IntOf(SubSeq(s, 1, Len(s) - 1)) + DigitVal(s[Len(s)])

\* The days of month m of year y.
DaysIn(y, m) ==
  IF m = 2 THEN (IF GregorianLeap(y) THEN 29 ELSE 28)
  ELSE IF m \in { 4, 6, 9, 11 } THEN 30 ELSE 31

\* time.Parse("2006-01-02", s): four digits, '-', two digits, '-', two
\* digits and nothing else, with the month and the day in range.
ParseDate(s) ==
  IF /\ Len(s) = 10
     /\ s[5] = "-" /\ s[8] = "-"
     /\ \A i \in { 1, 2, 3, 4, 6, 7, 9, 10 } : IsDigit(s[i])
    THEN LET y == IntOf(SubSeq(s, 1, 4))
             m == IntOf(SubSeq(s, 6, 7))
             d == IntOf(SubSeq(s, 9, 10))
         IN  IF m \in 1..12 /\ d \in 1..DaysIn(y, m)
               THEN [ok |-> TRUE,
                     t |-> [day |-> DaysFromCivil(y, m, d), sec |-> 0]]
               ELSE [ok |-> FALSE, t |-> ZeroTime]
    ELSE [ok |-> FALSE, t |-> ZeroTime]

\* strconv.ParseFloat(s, 64) on decimal numerals with at most one digit after
\* the point, and on "NaN", which it accepts in any letter case: an optional
\* sign, then digits with an optional point among them, at least one digit.
ParseFloat(s) ==
  LET signed == Len(s) > 0 /\ s[1] \in { "+", "-" }
      body == IF signed THEN SubSeq(s, 2, Len(s)) ELSE s
      dots == { i \in DOMAIN body : body[i] = "." }
      dot == IF dots = {} THEN Len(body) + 1
             ELSE CHOOSE i \in dots : \A j \in dots : i <= j
      ip == SubSeq(body, 1, dot - 1)
      fp == SubSeq(body, dot + 1, Len(body))
      mag == 10 * IntOf(ip) + (IF Len(fp) = 1 THEN DigitVal(fp[1]) ELSE 0)
  IN  IF s \in { << "N", "a", "N" >>, << "n", "a", "n" >>, << "N", "A", "N" >> }
        THEN [ok |-> TRUE, f |-> NaN]
      ELSE IF /\ Cardinality(dots) <= 1
              /\ AllDigits(ip) /\ AllDigits(fp)
              /\ Len(ip) + Len(fp) > 0
              /\ Len(fp) <= 1
        THEN [ok |-> TRUE,
              f |-> Num(IF signed /\ s[1] = "-" THEN 0 - mag ELSE mag)]
      ELSE [ok |-> FALSE, f |-> Num(0)]

\* The provider's missing-value sentinel.
Sentinel == << "." >>

\* Observation.UnmarshalJSON on a JSON object whose four fields are strings,
\* called on a zero Observation: the outcome and the Observation it leaves.
UnmarshalJSON(b) ==
  LET rs == ParseDate(b.RealtimeStart)
      re == ParseDate(b.RealtimeEnd)
      dt == ParseDate(b.Date)
      f == ParseFloat(b.Value)
      o1 == [ZeroObservation EXCEPT !.RealtimeStart = rs.t]
      o2 == [o1 EXCEPT !.RealtimeEnd = re.t]
      o3 == [o2 EXCEPT !.Date = dt.t]
  IN  IF ~rs.ok THEN [done |-> TRUE, err |-> TRUE, o |-> ZeroObservation]
      ELSE IF ~re.ok THEN [done |-> TRUE, err |-> TRUE, o |-> o1]
      ELSE IF ~dt.ok THEN [done |-> TRUE, err |-> TRUE, o |-> o2]
      ELSE IF b.Value = Sentinel THEN [done |-> TRUE, err |-> FALSE, o |-> o3]
      ELSE IF ~f.ok THEN [done |-> TRUE, err |-> TRUE, o |-> o3]
      ELSE [done |-> TRUE, err |-> FALSE, o |-> [o3 EXCEPT !.Value = f.f]]

(* ----------------------------- descriptor ----------------------------- *)

\* The one descriptor NewFredCollector builds and every series shares.
Desc ==
  [fqName |-> "fred_series_values", help |-> "FRED time series",
   labels |-> << "series" >>]

\* The value of the oldest observation of a response.
FirstValue(obs) == obs[1]

\* res.Observations[len(res.Observations)-1].Value.
LastValue(obs) == obs[Len(obs)]

(* ------------------------------- state -------------------------------- *)

VARIABLES
  config,    \* the series list handed to NewFredCollector
  mainpc,    \* main goroutine: "new", "meta", "crashed" (NewFredCollector),
             \* "register", "describe" (MustRegister), "serving"
  idx,       \* position of NewFredCollector's loop in config
  series,    \* fredCollector.series: identifier -> collectorSeries
  readers,   \* read locks held on fredCollector.seriesMu
  descTodo,  \* Describe: the series whose descriptor is still to be sent
  pc,        \* per pass: "idle", "iter", "fetch", "rejTime", "setTime", "emit"
  todo,      \* per pass: the series the range loop has not visited yet
  cur,       \* per pass: the series being visited
  emitted,   \* per pass: the samples sent on ch in the current cycle
  result,    \* per pass: "none", "running", "complete", "aborted"
  rejected,  \* per pass: series whose fetch was rejected in the current cycle
  since,     \* per pass: the clock when the pass reached its time.Now() statement
  rt,        \* per goroutine, RoundTrip: "off", "wait", "done"
  ctx,       \* per goroutine: the request context, "live" or "cancelled"
  waitErr,   \* per goroutine: whether Limiter.Wait returned an error
  tokens,    \* tokens in the limiter's bucket
  clock,     \* seconds since the process started
  forwards,  \* per second: requests handed to the underlying transport
  valBy,     \* per series: the pass whose refresh wrote value
  tsBy,      \* per series: the pass whose refresh wrote lastUpdate after a
             \* value (line 540); "none" once line 535 wrote it
  got,       \* per pass: the last observation of the response it stored
             \* for the series it is visiting, 0 when it stored none
  overlap,   \* per pass: another pass has been in progress during this cycle
  startedSince, \* per pass: the passes started since its fetch was issued
  older,     \* per pass, once it has refreshed the series it is visiting:
             \* the value now in the registry comes from a fetch issued
             \* before this pass started
  probe,     \* inputs of a stand-alone shouldUpdate evaluation
  decision,  \* its result: "none" before the evaluation, "stale", "fresh"
  raw,       \* the JSON object handed to Observation.UnmarshalJSON
  decoded    \* its outcome: done, the error, the Observation

collectorVars == << config, mainpc, idx, series, readers, descTodo >>
passVars == << pc, todo, cur, emitted, result, rejected, since >>
rtVars == << rt, ctx, waitErr, tokens, clock, forwards >>
ghostVars == << valBy, tsBy, got, overlap, startedSince, older >>
freshVars == << probe, decision >>
decodeVars == << raw, decoded >>
vars == << collectorVars, passVars, rtVars, ghostVars, freshVars, decodeVars >>

\* The day the process starts: 2024-07-01.
StartDay == DaysFromCivil(2024, 7, 1)

\* The instant the clock shows at second c.
Instant(c) == [day |-> StartDay, sec |-> c]

\* time.Now().
Now == Instant(clock)

NoProbe == [frequency |-> "", lastUpdate |-> ZeroTime, now |-> ZeroTime]

\* No JSON object has been handed to the decoder.
NoRaw ==
  [RealtimeStart |-> << >>, RealtimeEnd |-> << >>, Date |-> << >>,
   Value |-> << >>]

\* The decoder has not run: o is the zero Observation.
NotDecoded == [done |-> FALSE, err |-> FALSE, o |-> ZeroObservation]

(* ------------------------------- Init --------------------------------- *)

\* Process start: flags parsed, NewFredCollector about to run, limiter full.
InitCollector(cfg) ==
  /\ config = cfg
  /\ mainpc = "new"
  /\ idx = 1
  /\ series = << >>
  /\ readers = 0
  /\ descTodo = {}
  /\ pc = [p \in Passes |-> "idle"]
  /\ todo = [p \in Passes |-> {}]
  /\ cur = [p \in Passes |-> << >>]
  /\ emitted = [p \in Passes |-> << >>]
  /\ result = [p \in Passes |-> "none"]
  /\ rejected = [p \in Passes |-> {}]
  /\ since = [p \in Passes |-> 0]
  /\ rt = [c \in Procs |-> "off"]
  /\ ctx = [c \in Procs |-> "live"]
  /\ waitErr = [c \in Procs |-> FALSE]
  /\ tokens = Burst
  /\ clock = 0
  /\ forwards = [t \in 0..MaxClock |-> 0]
  /\ valBy = [s \in SeriesIds |-> "none"]
  /\ tsBy = [s \in SeriesIds |-> "none"]
  /\ got = [p \in Passes |-> 0]
  /\ overlap = [p \in Passes |-> FALSE]
  /\ startedSince = [p \in Passes |-> {}]
  /\ older = [p \in Passes |-> FALSE]

Init ==
  /\ \E cfg \in ConfigLists : InitCollector(cfg)
  /\ probe = NoProbe
  /\ decision = "none"
  /\ raw = NoRaw
  /\ decoded = NotDecoded

(* --------------------------- rate limiter ----------------------------- *)

\* Requests handed to the underlying transport in the seconds a..b.
RECURSIVE ForwardedIn(_, _)
ForwardedIn(a, b) == IF a > b THEN 0 ELSE forwards[a] + ForwardedIn(a + 1, b)

\* One second passes; the bucket refills up to its burst.
Tick ==
  /\ clock < MaxClock
  /\ clock' = clock + 1
  /\ tokens' = IF tokens + Rate > Burst THEN Burst ELSE tokens + Rate
  /\ UNCHANGED << rt, ctx, waitErr, forwards >>
  /\ UNCHANGED << collectorVars, passVars, ghostVars, freshVars, decodeVars >>

\* A round tripper that forwards without waiting for a token.
RoundTripUnlimited(c) ==
  /\ rt[c] = "wait"
  /\ ctx[c] = "live"
  /\ waitErr' = [waitErr EXCEPT ![c] = FALSE]
  /\ rt' = [rt EXCEPT ![c] = "done"]
  /\ forwards' = [forwards EXCEPT ![clock] = @ + 1]
  /\ UNCHANGED << ctx, clock, tokens >>
  /\ UNCHANGED << collectorVars, passVars, ghostVars, freshVars, decodeVars >>

\* RoundTrip when the request's context stays live: r.l.Wait blocks until a
\* token is there, takes it and returns nil; the request is then handed to
\* the underlying transport.
RoundTripLive(c) ==
  /\ rt[c] = "wait"
  /\ ctx[c] = "live"
  /\ tokens >= 1
  /\ tokens' = tokens - 1
  /\ waitErr' = [waitErr EXCEPT ![c] = FALSE]
  /\ rt' = [rt EXCEPT ![c] = "done"]
  /\ forwards' = [forwards EXCEPT ![clock] = @ + 1]
  /\ UNCHANGED << ctx, clock >>
  /\ UNCHANGED << collectorVars, passVars, ghostVars, freshVars, decodeVars >>

\* RoundTrip when the request's context is cancelled during the wait:
\* r.l.Wait returns the context's error and takes no token; RoundTrip drops
\* that error and hands the request to the underlying transport all the same.
RoundTripCancelled(c) ==
  /\ rt[c] = "wait"
  /\ ctx[c] = "cancelled"
  /\ waitErr' = [waitErr EXCEPT ![c] = TRUE]
  /\ rt' = [rt EXCEPT ![c] = "done"]
  /\ forwards' = [forwards EXCEPT ![clock] = @ + 1]
  /\ UNCHANGED << ctx, clock, tokens >>
  /\ UNCHANGED << collectorVars, passVars, ghostVars, freshVars, decodeVars >>

(* -------------------------- NewFredCollector -------------------------- *)

\* What getMeta(s) can return: (nil, err), or a decoded
\* SeriesMetadataResponse.  An accepted request for S1 is answered with one
\* series record, an accepted request for S2 with an empty series list.
MetaResults(s) ==
  { [err |-> TRUE, Error |-> "", Series |-> << >>],
    [err |-> FALSE, Error |-> "Bad Request", Series |-> << >>] }
  \cup IF s = S1
         THEN { [err |-> FALSE, Error |-> "",
                 Series |-> << [Title |-> << "T" >>, FrequencyShort |-> f] >>]
                : f \in MetaFreqs }
         ELSE { [err |-> FALSE, Error |-> "", Series |-> << >>] }

\* for _, s := range series: the next getMeta(s) issues its request.
MetaStart ==
  /\ mainpc = "new"
  /\ idx <= Len(config)
  /\ mainpc' = "meta"
  /\ rt' = [rt EXCEPT !["main"] = "wait"]
  /\ ctx' = [ctx EXCEPT !["main"] = "live"]
  /\ UNCHANGED << waitErr, tokens, clock, forwards >>
  /\ UNCHANGED << config, idx, series, readers, descTodo >>
  /\ UNCHANGED << passVars, ghostVars, freshVars, decodeVars >>

\* The loop body after getMeta returned meta.
NewFredCollectorBody(meta) ==
  LET s == config[idx] IN
  IF meta.err
    THEN \* meta is nil: meta.Error dereferences it and the process panics
         /\ mainpc' = "crashed"
         /\ UNCHANGED << idx, series >>
    ELSE IF meta.Error # ""
    THEN \* println(meta.Error); continue
         /\ mainpc' = "new"
         /\ idx' = idx + 1
         /\ UNCHANGED series
    ELSE LET seriesInfo == IF Len(meta.Series) > 0
                             THEN meta.Series[1].Title
                             ELSE ToLower(s)
             frequency == IF Len(meta.Series) > 0
                            THEN meta.Series[1].FrequencyShort
                            ELSE ""
             new == [desc |-> Desc, title |-> seriesInfo,
                     frequency |-> frequency,
                     lastUpdate |-> ZeroTime, value |-> 0]
         IN  /\ mainpc' = "new"
             /\ idx' = idx + 1
             /\ series' = [x \in DOMAIN series \cup { s } |->
                             IF x = s THEN new ELSE series[x]]

MetaReturn(meta) ==
  /\ mainpc = "meta"
  /\ meta \in MetaResults(config[idx])
  /\ rt["main"] = "done"
  /\ rt' = [rt EXCEPT !["main"] = "off"]
  /\ NewFredCollectorBody(meta)
  /\ UNCHANGED << ctx, waitErr, tokens, clock, forwards >>
  /\ UNCHANGED << config, readers, descTodo >>
  /\ UNCHANGED << passVars, ghostVars, freshVars, decodeVars >>

\* return collector, nil; main goes on to prometheus.MustRegister.
NewFredCollectorReturn ==
  /\ mainpc = "new"
  /\ idx > Len(config)
  /\ mainpc' = "register"
  /\ UNCHANGED << config, idx, series, readers, descTodo >>
  /\ UNCHANGED << passVars, rtVars, ghostVars, freshVars, decodeVars >>

(* ------------------------------ Describe ------------------------------ *)

\* MustRegister calls Describe: c.seriesMu.RLock(), and the range loop
\* begins.
DescribeStart ==
  /\ mainpc = "register"
  /\ mainpc' = "describe"
  /\ readers' = readers + 1
  /\ descTodo' = DOMAIN series
  /\ UNCHANGED << config, idx, series >>
  /\ UNCHANGED << passVars, rtVars, ghostVars, freshVars, decodeVars >>

\* ch <- cs.desc for the next series, in any order.
DescribeSend ==
  /\ mainpc = "describe"
  /\ \E s \in descTodo : descTodo' = descTodo \ { s }
  /\ UNCHANGED << config, mainpc, idx, series, readers >>
  /\ UNCHANGED << passVars, rtVars, ghostVars, freshVars, decodeVars >>

\* The loop ends: c.seriesMu.RUnlock(); MustRegister returns and main
\* serves /metrics.
DescribeDone ==
  /\ mainpc = "describe"
  /\ descTodo = {}
  /\ readers' = readers - 1
  /\ mainpc' = "serving"
  /\ UNCHANGED << config, idx, series, descTodo >>
  /\ UNCHANGED << passVars, rtVars, ghostVars, freshVars, decodeVars >>

(* ------------------------------ Collect ------------------------------- *)

\* The observation values of an accepted response, oldest first: none, one,
\* two rising, two falling.  The value 2 is last only after an earlier 1.
ObsLists == { << >>, << 1 >>, << 1, 2 >>, << 2, 1 >> }

\* What getSeries can return: (nil, err), or a decoded SeriesResponse.
SeriesResults ==
  { [err |-> TRUE, Error |-> "", Observations |-> << >>],
    [err |-> FALSE, Error |-> "Bad Request", Observations |-> << >>] }
  \cup { [err |-> FALSE, Error |-> "", Observations |-> obs]
         : obs \in ObsLists }

\* A scrape calls Collect: c.seriesMu.RLock(), and the range loop begins.
CollectStart(p) ==
  /\ mainpc = "serving"
  /\ pc[p] = "idle"
  /\ readers' = readers + 1
  /\ pc' = [pc EXCEPT ![p] = "iter"]
  /\ todo' = [todo EXCEPT ![p] = DOMAIN series]
  /\ emitted' = [emitted EXCEPT ![p] = << >>]
  /\ result' = [result EXCEPT ![p] = "running"]
  /\ rejected' = [rejected EXCEPT ![p] = {}]
  /\ overlap' = [q \in Passes |->
                   IF q = p THEN \E r \in Passes \ { p } : pc[r] # "idle"
                   ELSE IF pc[q] # "idle" THEN TRUE ELSE overlap[q]]
  /\ startedSince' = [q \in Passes |->
                        IF pc[q] = "fetch" THEN startedSince[q] \cup { p }
                        ELSE startedSince[q]]
  /\ UNCHANGED << cur, since >>
  /\ UNCHANGED << config, mainpc, idx, series, descTodo >>
  /\ UNCHANGED << rtVars, valBy, tsBy, got, older, freshVars, decodeVars >>

\* The loop takes the next series, in any order, and getSeries issues its
\* request; shouldUpdate is not consulted.
Iter(p) ==
  /\ pc[p] = "iter"
  /\ \E s \in todo[p] :
       /\ cur' = [cur EXCEPT ![p] = s]
       /\ todo' = [todo EXCEPT ![p] = @ \ { s }]
  /\ pc' = [pc EXCEPT ![p] = "fetch"]
  /\ rt' = [rt EXCEPT ![p] = "wait"]
  /\ ctx' = [ctx EXCEPT ![p] = "live"]
  /\ startedSince' = [startedSince EXCEPT ![p] = {}]
  /\ UNCHANGED << emitted, result, rejected, since >>
  /\ UNCHANGED << waitErr, tokens, clock, forwards >>
  /\ UNCHANGED << collectorVars, valBy, tsBy, got, overlap, older >>
  /\ UNCHANGED << freshVars, decodeVars >>

\* The loop ends: c.seriesMu.RUnlock().
CollectDone(p) ==
  /\ pc[p] = "iter"
  /\ todo[p] = {}
  /\ readers' = readers - 1
  /\ pc' = [pc EXCEPT ![p] = "idle"]
  /\ result' = [result EXCEPT ![p] = "complete"]
  /\ overlap' = [overlap EXCEPT ![p] = FALSE]
  /\ UNCHANGED << todo, cur, emitted, rejected, since >>
  /\ UNCHANGED << config, mainpc, idx, series, descTodo >>
  /\ UNCHANGED << rtVars, valBy, tsBy, got, startedSince, older >>
  /\ UNCHANGED << freshVars, decodeVars >>

\* Lines 529-541, up to the time.Now() statement of the branch taken.
CollectBody(p, res) ==
  LET s == cur[p] IN
  IF res.err
    THEN \* fmt.Println(err.Error()); return
         /\ pc' = [pc EXCEPT ![p] = "idle"]
         /\ result' = [result EXCEPT ![p] = "aborted"]
         /\ cur' = [cur EXCEPT ![p] = << >>]
         /\ overlap' = [overlap EXCEPT ![p] = FALSE]
         /\ UNCHANGED << series, rejected, since, valBy, got, older >>
    ELSE IF res.Error # ""
    THEN /\ pc' = [pc EXCEPT ![p] = "rejTime"]
         /\ rejected' = [rejected EXCEPT ![p] = @ \cup { s }]
         /\ since' = [since EXCEPT ![p] = clock]
         /\ UNCHANGED << series, result, valBy, cur, got, overlap, older >>
    ELSE IF Len(res.Observations) > 0
    THEN /\ series' = [series EXCEPT
                         ![s].value = LastValue(res.Observations)]
         /\ valBy' = [valBy EXCEPT ![s] = p]
         /\ got' = [got EXCEPT
                      ![p] = res.Observations[Len(res.Observations)]]
         /\ older' = [q \in Passes |->
                        IF q = p THEN FALSE
                        ELSE IF cur[q] = s /\ pc[q] \in { "setTime", "emit" }
                                  /\ got[q] # 0
                          THEN q \in startedSince[p]
                          ELSE older[q]]
         /\ pc' = [pc EXCEPT ![p] = "setTime"]
         /\ since' = [since EXCEPT ![p] = clock]
         /\ UNCHANGED << result, rejected, cur, overlap >>
    ELSE /\ pc' = [pc EXCEPT ![p] = "emit"]
         /\ UNCHANGED << series, result, rejected, since, valBy, cur >>
         /\ UNCHANGED << got, overlap, older >>

GetSeriesReturn(p, res) ==
  /\ pc[p] = "fetch"
  /\ rt[p] = "done"
  /\ rt' = [rt EXCEPT ![p] = "off"]
  /\ CollectBody(p, res)
  /\ startedSince' = [startedSince EXCEPT ![p] = {}]
  /\ UNCHANGED << todo, emitted >>
  /\ UNCHANGED << ctx, waitErr, tokens, clock, forwards >>
  /\ UNCHANGED << config, mainpc, idx, readers, descTodo >>
  /\ UNCHANGED << tsBy, freshVars, decodeVars >>

\* The instants a cs.lastUpdate = time.Now() statement can store: time.Now()
\* is read at some moment between reaching the statement and the store.
NowReadings(p) == { Instant(t) : t \in since[p]..clock }

\* A rejected branch that also forgets the series' frequency.
RejectStoreForget(p) ==
  /\ pc[p] = "rejTime"
  /\ \E t \in NowReadings(p) :
       series' = [series EXCEPT ![cur[p]].lastUpdate = t,
                                ![cur[p]].frequency = ""]
  /\ tsBy' = [tsBy EXCEPT ![cur[p]] = "none"]
  /\ pc' = [pc EXCEPT ![p] = "iter"]
  /\ since' = [since EXCEPT ![p] = 0]
  /\ cur' = [cur EXCEPT ![p] = << >>]
  /\ UNCHANGED << todo, emitted, result, rejected >>
  /\ UNCHANGED << config, mainpc, idx, readers, descTodo >>
  /\ UNCHANGED << rtVars, valBy, got, overlap, startedSince, older >>
  /\ UNCHANGED << freshVars, decodeVars >>

\* Line 535: cs.lastUpdate = time.Now(); continue.
RejectStore(p) ==
  /\ pc[p] = "rejTime"
  /\ \E t \in NowReadings(p) :
       series' = [series EXCEPT ![cur[p]].lastUpdate = t]
  /\ tsBy' = [tsBy EXCEPT ![cur[p]] = "none"]
  /\ pc' = [pc EXCEPT ![p] = "iter"]
  /\ since' = [since EXCEPT ![p] = 0]
  /\ cur' = [cur EXCEPT ![p] = << >>]
  /\ UNCHANGED << todo, emitted, result, rejected >>
  /\ UNCHANGED << config, mainpc, idx, readers, descTodo >>
  /\ UNCHANGED << rtVars, valBy, got, overlap, startedSince, older >>
  /\ UNCHANGED << freshVars, decodeVars >>

\* Line 540: cs.lastUpdate = time.Now().
RefreshStore(p) ==
  /\ pc[p] = "setTime"
  /\ \E t \in NowReadings(p) :
       series' = [series EXCEPT ![cur[p]].lastUpdate = t]
  /\ tsBy' = [tsBy EXCEPT ![cur[p]] = p]
  /\ pc' = [pc EXCEPT ![p] = "emit"]
  /\ since' = [since EXCEPT ![p] = 0]
  /\ UNCHANGED << todo, cur, emitted, result, rejected >>
  /\ UNCHANGED << config, mainpc, idx, readers, descTodo >>
  /\ UNCHANGED << rtVars, valBy, got, overlap, startedSince, older >>
  /\ UNCHANGED << freshVars, decodeVars >>

\* Lines 543-548: ch <- MustNewConstMetric(cs.desc, GaugeValue, cs.value, n).
Emit(p) ==
  /\ pc[p] = "emit"
  /\ emitted' = [emitted EXCEPT ![p] =
                   Append(@, [label |-> metricName(cur[p]),
                              value |-> series[cur[p]].value])]
  /\ pc' = [pc EXCEPT ![p] = "iter"]
  /\ cur' = [cur EXCEPT ![p] = << >>]
  /\ got' = [got EXCEPT ![p] = 0]
  /\ older' = [older EXCEPT ![p] = FALSE]
  /\ UNCHANGED << todo, result, rejected, since >>
  /\ UNCHANGED << collectorVars, rtVars >>
  /\ UNCHANGED << valBy, tsBy, overlap, startedSince >>
  /\ UNCHANGED << freshVars, decodeVars >>

(* --------------------------- specification ---------------------------- *)

Next ==
  \/ Tick
  \/ \E c \in Procs : RoundTripLive(c)
  \/ MetaStart
  \/ \E meta \in MetaResults(S1) \cup MetaResults(S2) : MetaReturn(meta)
  \/ NewFredCollectorReturn
  \/ DescribeStart
  \/ DescribeSend
  \/ DescribeDone
  \/ \E p \in Passes : CollectStart(p)
  \/ \E p \in Passes : Iter(p)
  \/ \E p \in Passes : CollectDone(p)
  \/ \E p \in Passes, res \in SeriesResults : GetSeriesReturn(p, res)
  \/ \E p \in Passes : RejectStore(p)
  \/ \E p \in Passes : RefreshStore(p)
  \/ \E p \in Passes : Emit(p)

Spec == Init /\ [][Next]_vars

(* -------------- export cycles under fair scheduling ------------------- *)

\* A second passes after the last one the clock counts: the limiter's bucket
\* goes on refilling.
Replenish ==
  /\ clock = MaxClock
  /\ tokens < Burst
  /\ tokens' = IF tokens + Rate > Burst THEN Burst ELSE tokens + Rate
  /\ UNCHANGED << rt, ctx, waitErr, clock, forwards >>
  /\ UNCHANGED << collectorVars, passVars, ghostVars, freshVars, decodeVars >>

\* A scrape arrives and calls Collect.
Scrape(p) ==
  /\ ForwardedIn(0, MaxClock) < MaxForwards
  /\ CollectStart(p)

NextLive ==
  \/ Tick
  \/ Replenish
  \/ \E c \in Procs : RoundTripLive(c)
  \/ MetaStart
  \/ \E meta \in MetaResults(S1) \cup MetaResults(S2) : MetaReturn(meta)
  \/ NewFredCollectorReturn
  \/ DescribeStart
  \/ DescribeSend
  \/ DescribeDone
  \/ \E p \in Passes : Scrape(p)
  \/ \E p \in Passes : Iter(p)
  \/ \E p \in Passes : CollectDone(p)
  \/ \E p \in Passes, res \in SeriesResults : GetSeriesReturn(p, res)
  \/ \E p \in Passes : RejectStore(p)
  \/ \E p \in Passes : RefreshStore(p)
  \/ \E p \in Passes : Emit(p)

\* The premises of termination.  The limiter keeps replenishing: time goes
\* on, and Limiter.Wait hands each waiting request a token in its turn.
\* Every provider call returns.  The scrape consumer keeps receiving, so a
\* send on ch completes.  A running goroutine goes on running.
Fairness ==
  /\ WF_vars(Tick)
  /\ WF_vars(Replenish)
  /\ \A p \in Passes :
       /\ SF_vars(RoundTripLive(p))
       /\ WF_vars(\E res \in SeriesResults : GetSeriesReturn(p, res))
       /\ WF_vars(Emit(p))
       /\ WF_vars(Iter(p))
       /\ WF_vars(CollectDone(p))
       /\ WF_vars(RejectStore(p))
       /\ WF_vars(RefreshStore(p))

SpecLive == Init /\ [][NextLive]_vars /\ Fairness

(* ------------- the round tripper under arbitrary requests ------------- *)

\* A client hands RoundTrip a request; its context is live.
RTCall(c) ==
  /\ rt[c] = "off"
  /\ ForwardedIn(0, MaxClock) + Cardinality({ d \in Procs : rt[d] = "wait" })
       < MaxCalls
  /\ rt' = [rt EXCEPT ![c] = "wait"]
  /\ ctx' = [ctx EXCEPT ![c] = "live"]
  /\ waitErr' = [waitErr EXCEPT ![c] = FALSE]
  /\ UNCHANGED << tokens, clock, forwards >>
  /\ UNCHANGED << collectorVars, passVars, ghostVars, freshVars, decodeVars >>

\* The request's context is cancelled, or its deadline passes, while
\* RoundTrip waits for a token.
CtxCancel(c) ==
  /\ rt[c] = "wait"
  /\ ctx[c] = "live"
  /\ ctx' = [ctx EXCEPT ![c] = "cancelled"]
  /\ UNCHANGED << rt, waitErr, tokens, clock, forwards >>
  /\ UNCHANGED << collectorVars, passVars, ghostVars, freshVars, decodeVars >>

\* The underlying transport's answer goes back to the client.
RTReturn(c) ==
  /\ rt[c] = "done"
  /\ rt' = [rt EXCEPT ![c] = "off"]
  /\ UNCHANGED << ctx, waitErr, tokens, clock, forwards >>
  /\ UNCHANGED << collectorVars, passVars, ghostVars, freshVars, decodeVars >>

NextRT ==
  \/ Tick
  \/ \E c \in Procs : RTCall(c)
  \/ \E c \in Procs : CtxCancel(c)
  \/ \E c \in Procs : RoundTripLive(c)
  \/ \E c \in Procs : RoundTripCancelled(c)
  \/ \E c \in Procs : RTReturn(c)

InitRT ==
  /\ InitCollector(<< >>)
  /\ probe = NoProbe
  /\ decision = "none"
  /\ raw = NoRaw
  /\ decoded = NotDecoded

\* RateLimitedRoundTripper on its own, called by clients whose requests
\* carry contexts that can be cancelled.
SpecRT == InitRT /\ [][NextRT]_vars

(* -------------------- shouldUpdate on drawn inputs -------------------- *)

\* Dates of time.Now(): every month of the year, leap and common
\* Februaries, century years.
NowDates ==
  { << 2021, 1, 15 >>, << 2023, 2, 20 >>, << 2024, 2, 29 >>, << 1900, 2, 10 >>,
    << 2000, 2, 10 >>, << 2100, 2, 10 >>, << 2021, 3, 3 >>, << 2023, 4, 10 >>,
    << 2021, 5, 5 >>, << 2023, 6, 30 >>, << 2024, 7, 1 >>, << 2021, 8, 8 >>,
    << 2022, 9, 1 >>, << 2021, 10, 10 >>, << 2022, 11, 5 >>, << 2023, 12, 31 >> }

NowSamples ==
  { [day |-> DaysFromCivil(d[1], d[2], d[3]), sec |-> s] :
      d \in NowDates, s \in { 0, 43200 } }

\* The numbers of days shouldUpdate adds to lastUpdate.
DayCounts == { 1, 7, 14, 28, 29, 30, 31, 91, 182, 365 }

\* Last refreshes: never, twelve hours ago, and for each day count one second
\* less than, exactly, and one second more than that many days ago.
LastSamples(now) ==
  { ZeroTime, Before(now, 0, 43200) }
  \cup { Before(now, n - 1, SecondsPerDay - 1) : n \in DayCounts }
  \cup { Before(now, n, 0) : n \in DayCounts }
  \cup { Before(now, n, 1) : n \in DayCounts }

InitFresh ==
  /\ InitCollector(<< >>)
  /\ \E f \in FreqCodes, now \in NowSamples :
       \E last \in LastSamples(now) :
         probe = [frequency |-> f, lastUpdate |-> last, now |-> now]
  /\ decision = "none"
  /\ raw = NoRaw
  /\ decoded = NotDecoded

\* cs.shouldUpdate() is called on the drawn series at the drawn time.
EvalShouldUpdate ==
  /\ decision = "none"
  /\ decision' = IF shouldUpdate(probe.frequency, probe.lastUpdate, probe.now)
                   THEN "stale" ELSE "fresh"
  /\ UNCHANGED probe
  /\ UNCHANGED << collectorVars, passVars, rtVars, ghostVars, decodeVars >>

SpecFresh == InitFresh /\ [][EvalShouldUpdate]_vars

(* ---------------- Observation.UnmarshalJSON on drawn inputs ----------- *)

\* Date fields: a leap day, a day that does not exist, a month without its
\* leading zero, an empty field.
DateStrings ==
  { << "2", "0", "2", "4", "-", "0", "2", "-", "2", "9" >>,
    << "2", "0", "2", "3", "-", "0", "2", "-", "2", "9" >>,
    << "2", "0", "2", "4", "-", "2", "-", "2", "9" >>,
    << >> }

\* Value fields that are decimal numerals.
NumericStrings ==
  { << "0" >>, << "1" >>, << "2" >>, << "1", "0" >>, << "0", ".", "5" >>,
    << "1", ".", "5" >>, << "-", "1" >>, << "0", ".", "0" >> }

\* Value fields: the sentinel, numerals, and strings that are neither.
ValueStrings ==
  { Sentinel } \cup NumericStrings
  \cup { << >>, << "x" >>, << "1", "x" >>, << ".", "." >>, << "-" >>,
         << "N", "a", "N" >> }

InitDecode ==
  /\ InitCollector(<< >>)
  /\ probe = NoProbe
  /\ decision = "none"
  /\ \E rs \in DateStrings, re \in DateStrings, d \in DateStrings :
       \E v \in ValueStrings :
         raw = [RealtimeStart |-> rs, RealtimeEnd |-> re, Date |-> d,
                Value |-> v]
  /\ decoded = NotDecoded

\* The JSON decoder calls UnmarshalJSON on a new Observation for the drawn
\* object.
DecodeObservation ==
  /\ ~decoded.done
  /\ decoded' = UnmarshalJSON(raw)
  /\ UNCHANGED raw
  /\ UNCHANGED << collectorVars, passVars, rtVars, ghostVars, freshVars >>

SpecDecode == InitDecode /\ [][DecodeObservation]_vars

(* ------------------------------ claims -------------------------------- *)

\* The samples of pass p that carry the label of series s.
SamplesOf(p, s) ==
  { i \in DOMAIN emitted[p] : emitted[p][i].label = metricName(s) }

\* C1: all-or-nothing export.  A cycle that ended on a transport or decode
\* error of some series' fetch has emitted no sample at all, whatever the
\* order in which the registry was visited.
C1_AllOrNothing ==
  \A p \in Passes : result[p] = "aborted" => emitted[p] = << >>

\* C2: atomic per-series update.  Whenever no pass is between its write of a
\* series' value and its write of that series' lastUpdate, a lastUpdate that
\* was written by a refresh that also wrote a value sits beside the value of
\* that same refresh, not beside the value of another pass's refresh.
C2_AtomicUpdate ==
  \A s \in DOMAIN series :
    ( /\ \A p \in Passes : ~(pc[p] = "setTime" /\ cur[p] = s)
      /\ tsBy[s] # "none" )
    => valBy[s] = tsBy[s]

\* C3: freshness gate.  Every step in which a pass issues the observations
\* fetch of a series is taken for a series shouldUpdate reports stale at that
\* moment: no fetch is issued for a fresh series.
C3_FetchOnlyWhenStale ==
  [][ \A p \in Passes :
        (pc[p] = "iter" /\ pc'[p] = "fetch")
        => shouldUpdate(series[cur'[p]].frequency,
                        series[cur'[p]].lastUpdate, Now) ]_vars

C7_ConstructionNeverCrashes == mainpc # "crashed"

\* C8: global quota.  In every window of seconds a..b the requests handed to
\* the underlying transport, metadata and observations, by main and by every
\* pass, number at most the burst plus one per second of the window.
C8_GlobalQuota ==
  \A a \in 0..MaxClock : \A b \in a..MaxClock :
    ForwardedIn(a, b) <= Burst + Rate * (b - a)

\* C8 witness: the quota is used up over the first two seconds by metadata
\* calls of main and by observations calls of two overlapping passes.
C8_QuotaUsedUp ==
  /\ ForwardedIn(0, 1) = Burst + Rate
  /\ forwards[1] > 0
  /\ Len(config) > 0
  /\ mainpc = "serving"
  /\ \A p \in Passes : pc[p] = "fetch" /\ rt[p] = "done"

\* C9: rate limiter cancellation.  A request whose wait for a token ended
\* with the context's error is not handed to the underlying transport.
C9_CancelledNotForwarded ==
  \A c \in Procs : rt[c] = "done" => ~waitErr[c]

\* The threshold table: the days of each frequency code, 0 for a code that is
\* not in the table.
TableDays(f, month, year) ==
  CASE f \in { "d", "D", "Daily" } -> 1
    [] f \in { "w", "W", "Weekly" } -> 7
    [] f \in { "bw", "BW", "Biweekly" } -> 14
    [] f \in { "m", "M", "Monthly" } ->
         IF month \in { 1, 3, 5, 7, 8, 10, 12 } THEN 31
         ELSE IF month \in { 4, 6, 9, 11 } THEN 30
         ELSE IF year % 4 = 0 /\ (year % 100 # 0 \/ year % 400 = 0) THEN 28
         ELSE 29
    [] f \in { "q", "Q", "Quarterly" } -> 91
    [] f \in { "sa", "SA", "Semiannual" } -> 182
    [] f \in { "a", "A", "Annual" } -> 365
    [] OTHER -> 0

\* The seconds from last to now exceed n days.
ElapsedExceeds(last, now, n) ==
  LET dd == now.day - last.day
      ds == now.sec - last.sec
  IN  dd > n \/ (dd = n /\ ds > 0)

\* C10: shouldUpdate decides as the threshold table says.  A code outside the
\* table is stale; a code in it is stale exactly when more than its threshold
\* has elapsed, so fresh at an elapsed time equal to the threshold and stale
\* one second later; a zero last refresh is stale.
C10_ThresholdTable ==
  decision # "none" =>
    LET n == TableDays(probe.frequency, Month(probe.now), Year(probe.now)) IN
    /\ n = 0 => decision = "stale"
    /\ n > 0 =>
         /\ decision = "stale" <=> ElapsedExceeds(probe.lastUpdate, probe.now, n)
         /\ probe.lastUpdate = Before(probe.now, n, 0) => decision = "fresh"
         /\ probe.lastUpdate = Before(probe.now, n, 1) => decision = "stale"
    /\ probe.lastUpdate = ZeroTime => decision = "stale"

\* C10 witness: a monthly series evaluated in a 30-day month exactly 30 days
\* after its last refresh has been found fresh.
C10_FreshAtThreshold ==
  /\ probe.frequency = "M"
  /\ Month(probe.now) = 4
  /\ probe.lastUpdate = Before(probe.now, 30, 0)
  /\ decision = "fresh"

\* C11: the February threshold of a monthly series.  isLeapYear finds 1900
\* and 2100 common and 2000 and 2024 leap; a monthly series evaluated in
\* February is stale exactly when more than 28 days have elapsed if the year
\* of the evaluation is a Gregorian leap year, and more than 29 days
\* otherwise, whatever the year of the last refresh.
C11_FebruaryThreshold ==
  /\ ~isLeapYear(1900) /\ ~isLeapYear(2100)
  /\ isLeapYear(2000) /\ isLeapYear(2024)
  /\ ( /\ decision # "none"
       /\ probe.frequency \in { "m", "M", "Monthly" }
       /\ Month(probe.now) = 2 )
     => LET n == IF GregorianLeap(Year(probe.now)) THEN 28 ELSE 29 IN
        decision = "stale" <=> ElapsedExceeds(probe.lastUpdate, probe.now, n)

\* C11 witness: in February 1900, a century year that is not leap, a monthly
\* series refreshed 28 days and one second ago has been found fresh, and so
\* has been held to the 29-day threshold.
C11_CenturyFebruaryFresh ==
  /\ probe.frequency = "m"
  /\ Year(probe.now) = 1900
  /\ Month(probe.now) = 2
  /\ probe.lastUpdate = Before(probe.now, 28, 1)
  /\ decision = "fresh"

\* The label the specification gives a series: its identifier lowercased,
\* with ':' and '-' replaced by '_'.
LabelOf(s) ==
  IF s = S1 THEN << "a", "_", "1" >>
  ELSE IF s = S2 THEN << "b", "_", "2" >>
  ELSE s

C13_EmptyResponseAdvancesTime ==
  [][ \A p \in Passes :
        (pc[p] = "fetch" /\ pc'[p] = "emit")
        => /\ series'[cur[p]].value = series[cur[p]].value
           /\ ~After(Now, series'[cur[p]].lastUpdate) ]_vars

C15_EmitsNoOlderValue ==
  [][ \A p \in Passes :
        (pc[p] = "emit" /\ pc'[p] = "iter" /\ got[p] # 0) => ~older[p] ]_vars

\* Pass p is inside its update of series s: it has stored the value and not
\* yet the lastUpdate (line 539 to 540), or is storing the lastUpdate of a
\* rejected fetch (line 535).
Updating(p, s) == cur[p] = s /\ pc[p] \in { "setTime", "rejTime" }

\* Pass p is about to read cs.value of series s for its sample (line 546).
Reading(p, s) == cur[p] = s /\ pc[p] = "emit"

\* C16: exclusive state updates.  No two passes are inside an update of the
\* same series at once, and no pass reads a series' state while another pass
\* is inside an update of it.
C16_ExclusiveUpdates ==
  \A s \in DOMAIN series : \A p \in Passes : \A q \in Passes \ { p } :
    ~(Updating(p, s) /\ (Updating(q, s) \/ Reading(q, s)))

\* NewFredCollector has returned the collector.
Constructed == mainpc \in { "register", "describe", "serving" }

\* Pass p's cycle has returned.
Returned(p) == result[p] \in { "complete", "aborted" }

C18_DescriptorFrame ==
  [][ Constructed =>
        /\ DOMAIN series' = DOMAIN series
        /\ \A s \in DOMAIN series :
             /\ series'[s].desc = series[s].desc
             /\ series'[s].title = series[s].title
             /\ series'[s].frequency = series[s].frequency ]_vars

\* C18 witness: after Describe and a complete cycle that refreshed one
\* series and had the fetch of another rejected, both series still carry the
\* descriptor, title and frequency of their registration.
C18_RefreshedAndRejected ==
  \E p \in Passes :
    /\ result[p] = "complete"
    /\ rejected[p] = { S2 }
    /\ DOMAIN series = { S1, S2 }
    /\ series[S1].value # 0
    /\ series[S1].lastUpdate # ZeroTime
    /\ series[S2].lastUpdate # ZeroTime
    /\ series[S1].title = << "T" >> /\ series[S1].frequency = "D"
    /\ series[S2].title = ToLower(S2) /\ series[S2].frequency = ""
    /\ \A s \in { S1, S2 } : series[s].desc = Desc

\* The three date fields of the drawn object parse.
DatesValid ==
  /\ ParseDate(raw.RealtimeStart).ok
  /\ ParseDate(raw.RealtimeEnd).ok
  /\ ParseDate(raw.Date).ok

\* C19: the missing-value sentinel.  An observation whose dates parse and
\* whose value field is the sentinel decodes without error into an
\* Observation that differs from the one every numeral decodes into, the
\* numeral 0 included; a value field that is neither the sentinel nor a
\* numeral makes the decode fail.
C19_SentinelDecodesAbsent ==
  (decoded.done /\ DatesValid) =>
    /\ raw.Value = Sentinel =>
         /\ ~decoded.err
         /\ \A v \in NumericStrings :
              decoded.o # UnmarshalJSON([raw EXCEPT !.Value = v]).o
    /\ raw.Value \notin NumericStrings \cup { Sentinel } => decoded.err

\* C20: lock balance.  The read locks held on seriesMu number the Collect
\* and Describe invocations in progress; a Collect that has returned, at the
\* end of its loop or on a fetch error, holds none.
C20_LockBalance ==
  readers = Cardinality({ p \in Passes : pc[p] # "idle" })
            + (IF mainpc = "describe" THEN 1 ELSE 0)

====
